---------------------------- MODULE Spec2Model ----------------------------
(***************************************************************************)
(* Hotkey-driven recording state machine of the voice-dictation desktop    *)
(* app (app/src-tauri/src/lib.rs): shortcut normalisation, per-event       *)
(* resolution of the three configured roles, the held-flag automata and    *)
(* the start/stop side-effect sequences.                                   *)
(*                                                                         *)
(* Strings are TLA+ strings; TLC evaluates Len, SubSeq and \o on them.     *)
(***************************************************************************)
EXTENDS Naturals, Sequences, FiniteSets, TLC

(***************************************************************************)
(* Bounds of the model.                                                    *)
(***************************************************************************)
MaxHistory == 2      \* history entries added during a run
MaxRun     == 4      \* length of the same-role event run that is tracked
MaxFrags   == 3      \* fragments concatenated into a normaliser input
MaxTokens  == 2      \* modifier/key tokens joined by "+" in a shortcut spelling

(***************************************************************************)
(* str::to_lowercase and str::replace.                                     *)
(***************************************************************************)
UpperChars == "ABCDEFGHIJKLMNOPQRSTUVWXYZ"
LowerChars == "abcdefghijklmnopqrstuvwxyz"

to_lowercase_char(c) ==
    IF \E i \in 1..Len(UpperChars) : SubSeq(UpperChars, i, i) = c
    THEN LET i == CHOOSE j \in 1..Len(UpperChars) : SubSeq(UpperChars, j, j) = c
         IN  SubSeq(LowerChars, i, i)
    ELSE c

RECURSIVE to_lowercase(_)
to_lowercase(s) ==
    IF Len(s) = 0 THEN ""
    ELSE to_lowercase_char(SubSeq(s, 1, 1)) \o to_lowercase(SubSeq(s, 2, Len(s)))

\* s.replace(from, to): every non-overlapping match, scanning left to right.
RECURSIVE replace(_, _, _)
replace(s, from, to) ==
    IF Len(s) < Len(from) THEN s
    ELSE IF SubSeq(s, 1, Len(from)) = from
         THEN to \o replace(SubSeq(s, Len(from) + 1, Len(s)), from, to)
         ELSE SubSeq(s, 1, 1) \o replace(SubSeq(s, 2, Len(s)), from, to)

\* Mutant: the super key's canonical spelling contains one of its synonyms.
normalize_shortcut_string_windows(s) ==
    replace(replace(replace(replace(to_lowercase(s),
        "ctrl", "control"), "cmd", "windows"), "meta", "windows"), "win", "windows")

\* Mutant: the input's case is kept.
normalize_shortcut_string_case_sensitive(s) ==
    replace(replace(replace(replace(s,
        "ctrl", "control"), "cmd", "super"), "meta", "super"), "win", "super")

normalize_shortcut_string(s) ==
    replace(replace(replace(replace(to_lowercase(s),
        "ctrl", "control"), "cmd", "super"), "meta", "super"), "win", "super")


(***************************************************************************)
(* HotkeyConfig (settings.rs) and the shortcut type of the global-shortcut *)
(* plugin.  A HotkeyConfig is [modifiers : Seq(STRING), key : STRING]; a   *)
(* Shortcut is [mods : SUBSET Modifiers, key : STRING].                    *)
(***************************************************************************)
default_toggle     == [modifiers |-> <<"ctrl", "alt">>, key |-> "Space"]
default_hold       == [modifiers |-> <<"ctrl", "alt">>, key |-> "Backquote"]
default_paste_last == [modifiers |-> <<"ctrl", "alt">>, key |-> "Period"]

\* A valid user configuration and one that names no key the OS knows.
CustomHotkey       == [modifiers |-> <<"Shift", "Cmd">>, key |-> "KeyK"]
BadHotkey          == [modifiers |-> <<"ctrl">>, key |-> "NoSuchKey"]

HotkeyConfigs ==
    {default_toggle, default_hold, default_paste_last, CustomHotkey, BadHotkey}

KnownKeys == {"Space", "Backquote", "Period", "KeyK"}

parse_modifier(name) ==
    LET n == to_lowercase(name)
    IN  IF n \in {"ctrl", "control"} THEN "control"
        ELSE IF n \in {"cmd", "command", "super"} THEN "super"
        ELSE IF n \in {"alt", "option"} THEN "alt"
        ELSE IF n = "shift" THEN "shift"
        ELSE "invalid"

RECURSIVE join_modifiers(_)
join_modifiers(ms) ==
    IF Len(ms) = 0 THEN ""
    ELSE Head(ms) \o "+" \o join_modifiers(Tail(ms))

\* HotkeyConfig::to_shortcut_string: "mod+mod+key".
to_shortcut_string(cfg) == join_modifiers(cfg.modifiers) \o cfg.key

\* HotkeyConfig::to_shortcut: Ok(shortcut) or Err.
to_shortcut(cfg) ==
    LET mods == {parse_modifier(cfg.modifiers[i]) : i \in 1..Len(cfg.modifiers)}
    IN  IF "invalid" \notin mods /\ cfg.key \in KnownKeys
        THEN [ok |-> TRUE, shortcut |-> [mods |-> mods, key |-> cfg.key]]
        ELSE [ok |-> FALSE]

to_shortcut_or_default(cfg, default) ==
    IF to_shortcut(cfg).ok THEN to_shortcut(cfg).shortcut
    ELSE to_shortcut(default).shortcut

\* shortcut.to_string(): modifiers in the plugin's fixed order, then the key.
shortcut_to_string(sc) ==
    (IF "shift" \in sc.mods THEN "shift+" ELSE "")
    \o (IF "control" \in sc.mods THEN "control+" ELSE "")
    \o (IF "alt" \in sc.mods THEN "alt+" ELSE "")
    \o (IF "super" \in sc.mods THEN "super+" ELSE "")
    \o sc.key

(***************************************************************************)
(* The settings store: each key holds a JSON value, or none.               *)
(***************************************************************************)
Missing      == [kind |-> "missing"]
Junk         == [kind |-> "junk"]            \* a value of the wrong JSON type
BoolVal(b)   == [kind |-> "bool", val |-> b]
HotkeyVal(c) == [kind |-> "hotkey", val |-> c]

BoolKeys   == {"sound_enabled", "auto_mute_audio"}
HotkeyKeys == {"toggle_hotkey", "hold_hotkey", "paste_last_hotkey"}
StoreKeys  == BoolKeys \cup HotkeyKeys

BoolValues   == {Missing, Junk, BoolVal(TRUE), BoolVal(FALSE)}
HotkeyValues == {Missing, Junk} \cup {HotkeyVal(c) : c \in HotkeyConfigs}

\* store.get(key), then serde_json::from_value::<T>, else the default.
get_setting_from_store(st, key, kind, default) ==
    IF st[key].kind = kind THEN st[key].val ELSE default

(***************************************************************************)
(* The strings and configurations the state machine meets are finitely     *)
(* many: the two conversions are tabulated over them once, so that every   *)
(* event looks its results up instead of recomputing them.                 *)
(***************************************************************************)
ValidShortcuts == {to_shortcut(c).shortcut : c \in {d \in HotkeyConfigs : to_shortcut(d).ok}}
ShortcutStrings ==
    {to_shortcut_string(c) : c \in HotkeyConfigs}
    \cup {shortcut_to_string(sc) : sc \in ValidShortcuts}

normalized == [s \in ShortcutStrings |-> normalize_shortcut_string(s)]
compiled   == [c \in HotkeyConfigs |-> to_shortcut(c)]

(***************************************************************************)
(* Program state.                                                          *)
(***************************************************************************)
VARIABLES
    store,               \* settings.json as the store plugin serves it
    registered,          \* shortcuts registered with the OS at startup
    audio_mute_manager,  \* TRUE iff AudioMuteManager::new() returned Some
    history,             \* HistoryStorage entries, most recent first
    toggle_key_held,     \* AppState atomics
    ptt_key_held,
    paste_key_held,
    is_recording,
    last,                \* the event handled by the last step, if it was one
    pre,                 \* the four flags as that event found them
    effects,             \* the calls that event made, in order
    run,                 \* the current run of events dispatched to one role
    norm_in,             \* normaliser input and outputs (SpecNorm only)
    norm_out,
    muted,               \* TRUE iff the system audio is muted by this program
    notified,            \* the notification the listeners received last
    dispatched,          \* per role, the state of the event dispatched to it last
    previous,            \* the event handled before the last one
    inflight             \* per context, the handler call it is running

vars == <<store, registered, audio_mute_manager, history, toggle_key_held,
          ptt_key_held, paste_key_held, is_recording, last, pre,
          effects, run, norm_in, norm_out, muted, notified, dispatched,
          previous, inflight>>

Eff(op, arg) == [op |-> op, arg |-> arg]

Flags == [toggle_key_held |-> toggle_key_held, ptt_key_held |-> ptt_key_held,
          paste_key_held |-> paste_key_held, is_recording |-> is_recording]

(***************************************************************************)
(* start_recording / stop_recording: the calls made, in order.  The first  *)
(* entry is the store to is_recording.                                     *)
(***************************************************************************)
\* Mutant: the start sequence never stores TRUE to is_recording.
start_recording_without_store(sound_enabled, manager, auto_mute_audio, source, mute_result) ==
    <<Eff("log_info_starting", source)>>
    \o (IF sound_enabled
        THEN <<Eff("play_sound", "RecordingStart"), Eff("sleep", "150ms")>>
        ELSE <<>>)
    \o (IF auto_mute_audio /\ manager THEN <<Eff("mute", mute_result)>> ELSE <<>>)
    \o <<Eff("emit", "recording-start")>>

\* Mutant: a failed mute call is propagated and ends the start sequence.
start_recording_aborts_on_mute_error(sound_enabled, manager, auto_mute_audio, source, mute_result) ==
    <<Eff("store_is_recording", "true"), Eff("log_info_starting", source)>>
    \o (IF sound_enabled
        THEN <<Eff("play_sound", "RecordingStart"), Eff("sleep", "150ms")>>
        ELSE <<>>)
    \o (IF auto_mute_audio /\ manager /\ mute_result = "err"
        THEN <<Eff("mute", mute_result)>>
        ELSE (IF auto_mute_audio /\ manager THEN <<Eff("mute", mute_result)>> ELSE <<>>)
             \o <<Eff("emit", "recording-start")>>)

start_recording(sound_enabled, manager, auto_mute_audio, source, mute_result) ==
    <<Eff("store_is_recording", "true"),
      Eff("log_info_starting", source)>>
    \o (IF sound_enabled
        THEN <<Eff("play_sound", "RecordingStart"), Eff("sleep", "150ms")>>
        ELSE <<>>)
    \o (IF auto_mute_audio /\ manager
        THEN <<Eff("mute", mute_result)>>
             \o (IF mute_result = "err"
                 THEN <<Eff("log_warn", "Failed to mute audio")>> ELSE <<>>)
        ELSE <<>>)
    \o <<Eff("emit", "recording-start")>>

\* Mutant: the stop cue is played before the unmute call.
stop_recording_cue_first(sound_enabled, manager, auto_mute_audio, source, mute_result) ==
    <<Eff("store_is_recording", "false"), Eff("log_info_stopping", source)>>
    \o (IF sound_enabled THEN <<Eff("play_sound", "RecordingStop")>> ELSE <<>>)
    \o (IF auto_mute_audio /\ manager THEN <<Eff("unmute", mute_result)>> ELSE <<>>)
    \o <<Eff("emit", "recording-stop")>>

stop_recording(sound_enabled, manager, auto_mute_audio, source, mute_result) ==
    <<Eff("store_is_recording", "false"),
      Eff("log_info_stopping", source)>>
    \o (IF auto_mute_audio /\ manager
        THEN <<Eff("unmute", mute_result)>>
             \o (IF mute_result = "err"
                 THEN <<Eff("log_warn", "Failed to unmute audio")>> ELSE <<>>)
        ELSE <<>>)
    \o (IF sound_enabled THEN <<Eff("play_sound", "RecordingStop")>> ELSE <<>>)
    \o <<Eff("emit", "recording-stop")>>

\* The value is_recording holds after the calls of es (f when none stores it).
recording_after(f, es) ==
    LET idx == {i \in 1..Len(es) : es[i].op = "store_is_recording"}
    IN  IF idx = {} THEN f
        ELSE es[CHOOSE i \in idx : \A j \in idx : j <= i].arg = "true"

\* The system audio after the calls of es: a successful mute() mutes it, a
\* successful unmute() restores it (audio_mute.rs).
RECURSIVE muted_after(_, _)
muted_after(m, es) ==
    IF es = <<>> THEN m
    ELSE muted_after(IF Head(es) = Eff("mute", "ok") THEN TRUE
                     ELSE IF Head(es) = Eff("unmute", "ok") THEN FALSE
                     ELSE m, Tail(es))

\* The notification received last after the calls of es.
RECURSIVE notified_after(_, _)
notified_after(n, es) ==
    IF es = <<>> THEN n
    ELSE notified_after(IF Head(es).op = "emit" THEN Head(es).arg ELSE n, Tail(es))

(***************************************************************************)
(* The per-event comparison keys (lib.rs 132-158).                         *)
(***************************************************************************)
\* Mutant: the stored configuration is used without checking that it compiles.
resolved_shortcut_str_unvalidated(st, key, default) ==
    normalized[to_shortcut_string(get_setting_from_store(st, key, "hotkey", default))]

resolved_shortcut_str(st, key, default) ==
    LET hotkey == get_setting_from_store(st, key, "hotkey", default)
    IN  normalized[IF compiled[hotkey].ok THEN to_shortcut_string(hotkey)
                   ELSE to_shortcut_string(default)]

\* A role's key depends on the store through that role's entry alone: it is
\* tabulated per entry, as normalized and compiled are.
default_of(key) ==
    IF key = "toggle_hotkey" THEN default_toggle
    ELSE IF key = "hold_hotkey" THEN default_hold
    ELSE default_paste_last

resolved ==
    [key \in HotkeyKeys |-> [v \in HotkeyValues |->
        resolved_shortcut_str([k \in StoreKeys |-> IF k = key THEN v ELSE Missing],
                              key, default_of(key))]]

toggle_shortcut_str(st) == resolved["toggle_hotkey"][st["toggle_hotkey"]]
hold_shortcut_str(st) == resolved["hold_hotkey"][st["hold_hotkey"]]
paste_last_shortcut_str(st) == resolved["paste_last_hotkey"][st["paste_last_hotkey"]]

\* normalize_shortcut_string(&shortcut.to_string()) of each shortcut the OS
\* can deliver.
event_shortcut_str ==
    [sc \in ValidShortcuts |-> normalized[shortcut_to_string(sc)]]

\* Mutant: the chain tests is_hold before is_toggle.
role_of_hold_first(st, shortcut_str) ==
    IF shortcut_str = hold_shortcut_str(st) THEN "Hold"
    ELSE IF shortcut_str = toggle_shortcut_str(st) THEN "Toggle"
    ELSE IF shortcut_str = paste_last_shortcut_str(st) THEN "PasteLast"
    ELSE "Unknown"

\* The if / else-if chain over is_toggle, is_hold, is_paste_last.
role_of(st, shortcut_str) ==
    IF shortcut_str = toggle_shortcut_str(st) THEN "Toggle"
    ELSE IF shortcut_str = hold_shortcut_str(st) THEN "Hold"
    ELSE IF shortcut_str = paste_last_shortcut_str(st) THEN "PasteLast"
    ELSE "Unknown"

(***************************************************************************)
(* handle_shortcut_event, branch by branch.  F is the four flags, snap the *)
(* settings read at the top of the handler, out the results the            *)
(* collaborators return to this event.  Each branch yields the flags after *)
(* it and the calls it made.                                               *)
(***************************************************************************)
\* No event consults both the mute and the history collaborator, and a failed
\* get_all makes no type_text call: one failure per event covers every outcome.
Outcomes ==
    {o \in [mute : {"ok", "err"}, get_all : {"ok", "err"}, type_text : {"ok", "err"}] :
        Cardinality({f \in {"mute", "get_all", "type_text"} : o[f] = "err"}) <= 1}

\* Mutant: the Toggle decision is taken on the press edge, not on release.
toggle_branch_acts_on_press(F, ev_state, snap, manager, out) ==
    IF ev_state = "Pressed"
    THEN IF ~F.toggle_key_held
         THEN LET es == IF F.is_recording
                        THEN stop_recording(snap.sound_enabled, manager,
                                 snap.auto_mute_audio, "Toggle", out.mute)
                        ELSE start_recording(snap.sound_enabled, manager,
                                 snap.auto_mute_audio, "Toggle", out.mute)
              IN  [flags |-> [F EXCEPT !.toggle_key_held = TRUE,
                                !.is_recording = recording_after(@, es)],
                   effects |-> es]
         ELSE [flags |-> [F EXCEPT !.toggle_key_held = TRUE], effects |-> <<>>]
    ELSE [flags |-> [F EXCEPT !.toggle_key_held = FALSE], effects |-> <<>>]

toggle_branch(F, ev_state, snap, manager, out) ==
    IF ev_state = "Pressed"
    THEN [flags |-> [F EXCEPT !.toggle_key_held = TRUE], effects |-> <<>>]
    ELSE IF F.toggle_key_held                    \* swap(false) returned true
         THEN LET es == IF F.is_recording
                        THEN stop_recording(snap.sound_enabled, manager,
                                 snap.auto_mute_audio, "Toggle", out.mute)
                        ELSE start_recording(snap.sound_enabled, manager,
                                 snap.auto_mute_audio, "Toggle", out.mute)
              IN  [flags |-> [F EXCEPT !.toggle_key_held = FALSE,
                                !.is_recording = recording_after(@, es)],
                   effects |-> es]
         ELSE [flags |-> [F EXCEPT !.toggle_key_held = FALSE], effects |-> <<>>]

\* Mutant: every Hold press starts a recording, the swap's result ignored.
hold_branch_no_debounce(F, ev_state, snap, manager, out) ==
    IF ev_state = "Pressed"
    THEN LET es == start_recording(snap.sound_enabled, manager,
                       snap.auto_mute_audio, "Hold", out.mute)
         IN  [flags |-> [F EXCEPT !.ptt_key_held = TRUE,
                           !.is_recording = recording_after(@, es)],
              effects |-> es]
    ELSE IF F.ptt_key_held
         THEN LET es == stop_recording(snap.sound_enabled, manager,
                            snap.auto_mute_audio, "Hold", out.mute)
              IN  [flags |-> [F EXCEPT !.ptt_key_held = FALSE,
                                !.is_recording = recording_after(@, es)],
                   effects |-> es]
         ELSE [flags |-> [F EXCEPT !.ptt_key_held = FALSE], effects |-> <<>>]

\* Mutant: every Hold release stops the recording, the swap's result ignored.
hold_branch_unguarded_release(F, ev_state, snap, manager, out) ==
    IF ev_state = "Pressed"
    THEN IF ~F.ptt_key_held
         THEN LET es == start_recording(snap.sound_enabled, manager,
                            snap.auto_mute_audio, "Hold", out.mute)
              IN  [flags |-> [F EXCEPT !.ptt_key_held = TRUE,
                                !.is_recording = recording_after(@, es)],
                   effects |-> es]
         ELSE [flags |-> [F EXCEPT !.ptt_key_held = TRUE], effects |-> <<>>]
    ELSE LET es == stop_recording(snap.sound_enabled, manager,
                       snap.auto_mute_audio, "Hold", out.mute)
         IN  [flags |-> [F EXCEPT !.ptt_key_held = FALSE,
                           !.is_recording = recording_after(@, es)],
              effects |-> es]

\* Mutant: a Hold press during a recording is ignored, held-flag included.
hold_branch_ignores_press_while_recording(F, ev_state, snap, manager, out) ==
    IF ev_state = "Pressed"
    THEN IF F.is_recording
         THEN [flags |-> F, effects |-> <<>>]
         ELSE IF ~F.ptt_key_held
         THEN LET es == start_recording(snap.sound_enabled, manager,
                            snap.auto_mute_audio, "Hold", out.mute)
              IN  [flags |-> [F EXCEPT !.ptt_key_held = TRUE,
                                !.is_recording = recording_after(@, es)],
                   effects |-> es]
         ELSE [flags |-> [F EXCEPT !.ptt_key_held = TRUE], effects |-> <<>>]
    ELSE IF F.ptt_key_held
         THEN LET es == stop_recording(snap.sound_enabled, manager,
                            snap.auto_mute_audio, "Hold", out.mute)
              IN  [flags |-> [F EXCEPT !.ptt_key_held = FALSE,
                                !.is_recording = recording_after(@, es)],
                   effects |-> es]
         ELSE [flags |-> [F EXCEPT !.ptt_key_held = FALSE], effects |-> <<>>]

hold_branch(F, ev_state, snap, manager, out) ==
    IF ev_state = "Pressed"
    THEN IF ~F.ptt_key_held                      \* swap(true) returned false
         THEN LET es == start_recording(snap.sound_enabled, manager,
                            snap.auto_mute_audio, "Hold", out.mute)
              IN  [flags |-> [F EXCEPT !.ptt_key_held = TRUE,
                                !.is_recording = recording_after(@, es)],
                   effects |-> es]
         ELSE [flags |-> [F EXCEPT !.ptt_key_held = TRUE], effects |-> <<>>]
    ELSE IF F.ptt_key_held                       \* swap(false) returned true
         THEN LET es == stop_recording(snap.sound_enabled, manager,
                            snap.auto_mute_audio, "Hold", out.mute)
              IN  [flags |-> [F EXCEPT !.ptt_key_held = FALSE,
                                !.is_recording = recording_after(@, es)],
                   effects |-> es]
         ELSE [flags |-> [F EXCEPT !.ptt_key_held = FALSE], effects |-> <<>>]

\* HistoryStorage::get_all(Some(limit)): the most recent entries first.
get_all(hist, limit) ==
    SubSeq(hist, 1, IF Len(hist) < limit THEN Len(hist) ELSE limit)

\* Mutant: a failed injection is tried a second time.
paste_last_action_retries(hist, out) ==
    <<Eff("log_info", "PasteLast: pasting last transcription"),
      Eff("get_all", out.get_all)>>
    \o (IF out.get_all = "ok"
        THEN LET entries == get_all(hist, 1)
             IN  IF Len(entries) > 0
                 THEN <<Eff("type_text", entries[1])>>
                      \o (IF out.type_text = "err"
                          THEN <<Eff("log_error", "Failed to paste last transcription"),
                                 Eff("type_text", entries[1])>>
                          ELSE <<>>)
                 ELSE <<Eff("log_info", "PasteLast: no history entries available")>>
        ELSE <<>>)

paste_last_action(hist, out) ==
    <<Eff("log_info", "PasteLast: pasting last transcription"),
      Eff("get_all", out.get_all)>>
    \o (IF out.get_all = "ok"
        THEN LET entries == get_all(hist, 1)
             IN  IF Len(entries) > 0
                 THEN <<Eff("type_text", entries[1])>>
                      \o (IF out.type_text = "err"
                          THEN <<Eff("log_error", "Failed to paste last transcription")>>
                          ELSE <<>>)
                 ELSE <<Eff("log_info", "PasteLast: no history entries available")>>
        ELSE <<>>)

\* Mutant: a completed paste gesture also ends the recording.
paste_last_branch_ends_recording(F, ev_state, hist, out) ==
    IF ev_state = "Pressed"
    THEN [flags |-> [F EXCEPT !.paste_key_held = TRUE], effects |-> <<>>]
    ELSE IF F.paste_key_held
         THEN [flags |-> [F EXCEPT !.paste_key_held = FALSE, !.is_recording = FALSE],
               effects |-> paste_last_action(hist, out)]
         ELSE [flags |-> [F EXCEPT !.paste_key_held = FALSE], effects |-> <<>>]

paste_last_branch(F, ev_state, hist, out) ==
    IF ev_state = "Pressed"
    THEN [flags |-> [F EXCEPT !.paste_key_held = TRUE], effects |-> <<>>]
    ELSE IF F.paste_key_held                     \* swap(false) returned true
         THEN [flags |-> [F EXCEPT !.paste_key_held = FALSE],
               effects |-> paste_last_action(hist, out)]
         ELSE [flags |-> [F EXCEPT !.paste_key_held = FALSE], effects |-> <<>>]

\* Mutant: an unknown shortcut resets the held-flags.
unknown_branch_clears_flags(F, shortcut_str) ==
    [flags |-> [F EXCEPT !.toggle_key_held = FALSE, !.ptt_key_held = FALSE,
                         !.paste_key_held = FALSE],
     effects |-> <<Eff("log_warn_unknown_shortcut", shortcut_str)>>]

unknown_branch(F, shortcut_str) ==
    [flags |-> F,
     effects |-> <<Eff("log_warn_unknown_shortcut", shortcut_str)>>]

\* Mutant: the two flags are read once, before the store is available.
settings_snapshot_cached(st) ==
    [sound_enabled |-> TRUE, auto_mute_audio |-> FALSE]

settings_snapshot(st) ==
    [sound_enabled   |-> get_setting_from_store(st, "sound_enabled", "bool", TRUE),
     auto_mute_audio |-> get_setting_from_store(st, "auto_mute_audio", "bool", FALSE)]

handle_shortcut_event(st, manager, hist, F, shortcut, ev_state, out) ==
    LET snap         == settings_snapshot(st)
        shortcut_str == event_shortcut_str[shortcut]
        role         == role_of(st, shortcut_str)
        res          == IF role = "Toggle"
                        THEN toggle_branch(F, ev_state, snap, manager, out)
                        ELSE IF role = "Hold"
                        THEN hold_branch(F, ev_state, snap, manager, out)
                        ELSE IF role = "PasteLast"
                        THEN paste_last_branch(F, ev_state, hist, out)
                        ELSE unknown_branch(F, shortcut_str)
    IN  [role |-> role, shortcut_str |-> shortcut_str, snap |-> snap,
         flags |-> res.flags, effects |-> res.effects]

(***************************************************************************)
(* Startup: load_initial_settings and build_global_shortcut_plugin.        *)
(***************************************************************************)
load_initial_settings(st) ==
    [toggle_hotkey     |-> get_setting_from_store(st, "toggle_hotkey", "hotkey",
                                                  default_toggle),
     hold_hotkey       |-> get_setting_from_store(st, "hold_hotkey", "hotkey",
                                                  default_hold),
     paste_last_hotkey |-> get_setting_from_store(st, "paste_last_hotkey", "hotkey",
                                                  default_paste_last)]

registered_shortcuts(st) ==
    LET initial_settings == load_initial_settings(st)
    IN  {to_shortcut_or_default(initial_settings.toggle_hotkey, default_toggle),
         to_shortcut_or_default(initial_settings.hold_hotkey, default_hold),
         to_shortcut_or_default(initial_settings.paste_last_hotkey, default_paste_last)}

\* Store contents over the given value sets.
Stores(bools, hotkeys) ==
    {st \in [StoreKeys -> bools \cup hotkeys] :
        /\ \A k \in BoolKeys : st[k] \in bools
        /\ \A k \in HotkeyKeys : st[k] \in hotkeys}

\* The settings files the app can start from: registration of the same
\* shortcut twice fails, and run() then aborts.
Startable(sts) == {st \in sts : Cardinality(registered_shortcuts(st)) = 3}

\* What the settings UI writes while the state machine runs (Spec): either
\* flag, and the Toggle role's shortcut, which then differs from the one
\* registered at startup.
LiveBoolValues   == {Missing, BoolVal(TRUE), BoolVal(FALSE)}
LiveHotkeyValues == {Missing, HotkeyVal(CustomHotkey)}
LiveHotkeyKeys   == {"toggle_hotkey"}

NoEvent == [role |-> "None", state |-> "None", shortcut_str |-> "",
            snap |-> settings_snapshot([k \in StoreKeys |-> Missing])]
NoRun   == [role |-> "None", events |-> <<>>, starts |-> 0, stops |-> 0,
            pastes |-> 0, rec0 |-> FALSE]
NoDispatch == [r \in {"Toggle", "Hold", "PasteLast"} |-> "None"]

\* The contexts that call handle_shortcut_event: the OS hook's, and the
\* application's request-handling context.
Contexts == {"hook", "command"}

\* A context that runs no handler.  pc: where the handler stands ("idle"
\* when it has returned, "aborted" when it returned out of a sequence that
\* had not emitted its notification); todo: the calls of its start or stop
\* sequence still to make; kind: that sequence; before: is_recording as its
\* store to is_recording found it; stale: an event of the opposite state
\* swapped the role's held-flag after this one did.
NoHandler ==
    [pc |-> "idle", role |-> "None", state |-> "None", snap |-> NoEvent.snap,
     todo |-> <<>>, kind |-> "none", before |-> "none", stale |-> FALSE]

InitFrom(sts, managers) ==
    /\ store \in Startable(sts)
    /\ registered = registered_shortcuts(store)
    /\ audio_mute_manager \in managers
    /\ history = <<>>
    /\ toggle_key_held = FALSE
    /\ ptt_key_held = FALSE
    /\ paste_key_held = FALSE
    /\ is_recording = FALSE
    /\ last = NoEvent
    /\ pre = Flags
    /\ effects = <<>>
    /\ run = NoRun
    /\ muted = FALSE
    /\ notified = "none"
    /\ dispatched = NoDispatch
    /\ previous = NoEvent
    /\ inflight = [h \in Contexts |-> NoHandler]

NormIdle == norm_in = "" /\ norm_out = <<>>

Init == InitFrom(Stores(LiveBoolValues, {Missing}), BOOLEAN) /\ NormIdle

(***************************************************************************)
(* Bookkeeping of the run of consecutive events dispatched to one role,    *)
(* begun by a press that found the role's held-flag false.                 *)
(***************************************************************************)
Count(es, op, arg) == Cardinality({i \in 1..Len(es) : es[i] = Eff(op, arg)})

held_flag(F, role) ==
    IF role = "Toggle" THEN F.toggle_key_held
    ELSE IF role = "Hold" THEN F.ptt_key_held
    ELSE IF role = "PasteLast" THEN F.paste_key_held
    ELSE FALSE

next_run(r, F, role, ev_state, es) ==
    LET starts == Count(es, "emit", "recording-start")
        stops  == Count(es, "emit", "recording-stop")
        pastes == Count(es, "log_info", "PasteLast: pasting last transcription")
    IN  IF r.role = role /\ role # "Unknown" /\ Len(r.events) < MaxRun
        THEN [r EXCEPT !.events = Append(@, ev_state), !.starts = @ + starts,
                       !.stops = @ + stops, !.pastes = @ + pastes]
        ELSE IF role # "Unknown" /\ ev_state = "Pressed" /\ ~held_flag(F, role)
        THEN [role |-> role, events |-> <<ev_state>>, starts |-> starts,
              stops |-> stops, pastes |-> pastes, rec0 |-> F.is_recording]
        ELSE NoRun

(***************************************************************************)
(* Actions.                                                                *)
(***************************************************************************)
\* The OS hook delivers a press or release of a registered shortcut and the
\* handler runs to its end.  track: the run of same-role events is kept;
\* observe: the event before this one ("previous") or the last event of
\* each role ("dispatched") is kept.
HandleShortcutEventWith(track, observe) ==
    \E shortcut \in registered, ev_state \in {"Pressed", "Released"}, out \in Outcomes :
        LET h == handle_shortcut_event(store, audio_mute_manager, history, Flags,
                                       shortcut, ev_state, out)
        IN  /\ toggle_key_held' = h.flags.toggle_key_held
            /\ ptt_key_held' = h.flags.ptt_key_held
            /\ paste_key_held' = h.flags.paste_key_held
            /\ is_recording' = h.flags.is_recording
            /\ last' = [role |-> h.role, state |-> ev_state,
                        shortcut_str |-> h.shortcut_str, snap |-> h.snap]
            /\ pre' = Flags
            /\ effects' = h.effects
            /\ run' = IF track THEN next_run(run, Flags, h.role, ev_state, h.effects)
                      ELSE run
            /\ muted' = muted_after(muted, h.effects)
            /\ notified' = notified_after(notified, h.effects)
            /\ dispatched' = IF observe = "dispatched" /\ h.role # "Unknown"
                             THEN [dispatched EXCEPT ![h.role] = ev_state]
                             ELSE dispatched
            /\ previous' = IF observe = "previous" /\ last.role # "None"
                           THEN last ELSE previous
            /\ UNCHANGED <<store, registered, audio_mute_manager, history,
                           norm_in, norm_out, inflight>>

HandleShortcutEvent(track) == HandleShortcutEventWith(track, "none")

\* The settings UI writes one key of the store.
SetSettingWith(keys, values, observe) ==
    /\ \E k \in keys, v \in values :
            /\ v # store[k]
            /\ store' = [store EXCEPT ![k] = v]
    /\ last' = NoEvent
    /\ pre' = Flags
    /\ effects' = <<>>
    /\ previous' = IF observe = "previous" /\ last.role # "None"
                   THEN last ELSE previous
    /\ UNCHANGED <<registered, audio_mute_manager, history, toggle_key_held,
                   ptt_key_held, paste_key_held, is_recording, run,
                   norm_in, norm_out, muted, notified, dispatched, inflight>>

SetSetting(keys, values) == SetSettingWith(keys, values, "none")

SetBoolSetting   == SetSetting(BoolKeys, LiveBoolValues)
SetHotkeySetting == SetSetting(LiveHotkeyKeys, LiveHotkeyValues)

\* commands::history::add_history_entry: the n-th entry carries the n-th text.
AddHistoryEntry ==
    /\ Len(history) < MaxHistory
    /\ history' = <<"dictation " \o ToString(Len(history) + 1)>> \o history
    /\ last' = NoEvent
    /\ pre' = Flags
    /\ effects' = <<>>
    /\ UNCHANGED <<store, registered, audio_mute_manager, toggle_key_held,
                   ptt_key_held, paste_key_held, is_recording, run,
                   norm_in, norm_out, muted, notified, dispatched, previous,
                   inflight>>

\* The state machine under live settings changes.
HandleEvent == HandleShortcutEvent(FALSE)

Next == HandleEvent \/ SetBoolSetting \/ SetHotkeySetting \/ AddHistoryEntry

Spec == Init /\ [][Next]_vars

(***************************************************************************)
(* The same handler with the run of same-role events tracked, from every   *)
(* startable settings file and with the history growing; the settings stay *)
(* as they were at startup.                                                *)
(***************************************************************************)
HandleTracked == HandleShortcutEvent(TRUE)

InitGesture ==
    InitFrom(Stores({BoolVal(TRUE), BoolVal(FALSE)}, {Missing}), BOOLEAN) /\ NormIdle

NextGesture == HandleTracked \/ AddHistoryEntry

SpecGesture == InitGesture /\ [][NextGesture]_vars

(***************************************************************************)
(* The resolver explored over every startable settings file: each role's   *)
(* entry missing, of the wrong type, uncompilable, or any configuration.   *)
(***************************************************************************)
HandleConfigured == HandleShortcutEvent(FALSE)

InitConfig == InitFrom(Stores({Missing}, HotkeyValues), {TRUE}) /\ NormIdle

NextConfig == HandleConfigured

SpecConfig == InitConfig /\ [][NextConfig]_vars

(***************************************************************************)
(* The handler while the store comes to hold one shortcut for several      *)
(* roles: after a startup from the defaults, any role's entry is rewritten *)
(* to the Toggle or the Hold default.                                      *)
(***************************************************************************)
CollidingValues == {Missing, HotkeyVal(default_toggle), HotkeyVal(default_hold)}

HandleColliding == HandleShortcutEvent(FALSE)

SetCollidingHotkey == SetSetting(HotkeyKeys, CollidingValues)

InitCollide == InitFrom(Stores({Missing}, {Missing}), {TRUE}) /\ NormIdle

NextCollide == HandleColliding \/ SetCollidingHotkey

SpecCollide == InitCollide /\ [][NextCollide]_vars

(***************************************************************************)
(* The handler under live settings changes, the event before the last one  *)
(* kept: the app starts from the defaults, and the settings UI rewrites    *)
(* either flag and the Toggle role's shortcut between events.              *)
(***************************************************************************)
HandleLive == HandleShortcutEventWith(FALSE, "previous")

SetLiveBool   == SetSettingWith(BoolKeys, {BoolVal(TRUE), BoolVal(FALSE)}, "previous")
SetLiveHotkey == SetSettingWith(LiveHotkeyKeys, LiveHotkeyValues, "previous")

InitLive == InitFrom(Stores({Missing}, {Missing}), {TRUE}) /\ NormIdle

NextLive == HandleLive \/ SetLiveBool \/ SetLiveHotkey

SpecLive == InitLive /\ [][NextLive]_vars

(***************************************************************************)
(* The handler while any role's shortcut is rewritten in the store and     *)
(* written back, so that releases (and presses) of a key that is down are  *)
(* dropped as unknown; the last event dispatched to each role is kept.     *)
(***************************************************************************)
HandleDrifting == HandleShortcutEventWith(FALSE, "dispatched")

SetDriftingHotkey == SetSetting(HotkeyKeys, LiveHotkeyValues)

InitDrift == InitFrom(Stores({Missing}, {Missing}), {TRUE}) /\ NormIdle

NextDrift == HandleDrifting \/ SetDriftingHotkey

SpecDrift == InitDrift /\ [][NextDrift]_vars

(***************************************************************************)
(* handle_shortcut_event step by step, one call per context and the calls  *)
(* of the two contexts interleaved.  A step is one access to shared state  *)
(* or one call of a collaborator: the read of the settings, the swap of    *)
(* the held-flag, the load of is_recording, and each call of the start or  *)
(* stop sequence, its store to is_recording first.                         *)
(***************************************************************************)
\* flag.swap(pressed, SeqCst): the value found and the flags after it.
swap_held_flag(F, role, ev_state) ==
    LET v == (ev_state = "Pressed")
    IN  [prev  |-> held_flag(F, role),
         flags |-> IF role = "Toggle" THEN [F EXCEPT !.toggle_key_held = v]
                   ELSE IF role = "Hold" THEN [F EXCEPT !.ptt_key_held = v]
                   ELSE [F EXCEPT !.paste_key_held = v]]

\* Mutant: every Hold press goes on to start_recording.
after_swap_unguarded(role, ev_state, prev) ==
    IF role = "Toggle"
    THEN IF ev_state = "Released" /\ prev THEN "load" ELSE "done"
    ELSE IF role = "Hold"
    THEN IF ev_state = "Pressed" THEN "start"
         ELSE IF prev THEN "stop" ELSE "done"
    ELSE IF ev_state = "Released" /\ prev THEN "paste" ELSE "done"

\* What the branch does with the value the swap returned.
after_swap(role, ev_state, prev) ==
    IF role = "Toggle"
    THEN IF ev_state = "Released" /\ prev THEN "load" ELSE "done"
    ELSE IF role = "Hold"
    THEN IF ev_state = "Pressed"
         THEN IF ~prev THEN "start" ELSE "done"
         ELSE IF prev THEN "stop" ELSE "done"
    ELSE IF ev_state = "Released" /\ prev THEN "paste" ELSE "done"

\* Mutant: a sequence gives up when it finds is_recording changed under it.
remaining_calls_cancellable(todo, kind, rec) ==
    IF Head(todo).op # "store_is_recording" /\ rec # (kind = "start")
    THEN <<>>
    ELSE Tail(todo)

\* The calls left after the first of todo: start_recording and
\* stop_recording run straight on, whatever is_recording has become.
remaining_calls(todo, kind, rec) == Tail(todo)

\* The calls of a sequence that are steps: a log line touches no state the
\* handlers share and is not a step of its own.
IsStep(e) == e.op \notin {"log_info_starting", "log_info_stopping", "log_warn"}

sequence_of(kind, snap, manager, source, mute_result) ==
    SelectSeq(IF kind = "start"
              THEN start_recording(snap.sound_enabled, manager, snap.auto_mute_audio,
                                   source, mute_result)
              ELSE stop_recording(snap.sound_enabled, manager, snap.auto_mute_audio,
                                  source, mute_result),
              IsStep)

Aborted == [NoHandler EXCEPT !.pc = "aborted"]

observers == <<last, pre, effects, run, norm_in, norm_out, dispatched, previous>>
environment == <<store, registered, audio_mute_manager, history>>
flags == <<toggle_key_held, ptt_key_held, paste_key_held, is_recording>>

\* The context is handed an event and reads the settings (lib.rs 126-166).
Deliver(h, shortcuts) ==
    /\ inflight[h].pc \in {"idle", "aborted"}
    /\ \E shortcut \in shortcuts, ev_state \in {"Pressed", "Released"} :
            LET role == role_of(store, event_shortcut_str[shortcut])
            IN  inflight' = [inflight EXCEPT ![h] =
                    [NoHandler EXCEPT !.pc = IF role = "Unknown" THEN "idle" ELSE "swap",
                                      !.role = role, !.state = ev_state,
                                      !.snap = settings_snapshot(store)]]
    /\ UNCHANGED <<observers, environment, flags, muted, notified>>

\* The swap of the role's held-flag (lib.rs 172, 175, 201, 213, 230, 233).
Swap(h, observe) ==
    /\ inflight[h].pc = "swap"
    /\ LET me == inflight[h]
           sw == swap_held_flag(Flags, me.role, me.state)
           to == after_swap(me.role, me.state, sw.prev)
       IN  /\ toggle_key_held' = sw.flags.toggle_key_held
           /\ ptt_key_held' = sw.flags.ptt_key_held
           /\ paste_key_held' = sw.flags.paste_key_held
           /\ \E mute_result \in {"ok", "err"} :
                inflight' = [g \in Contexts |->
                    IF g = h
                    THEN IF to = "done" THEN NoHandler
                         ELSE IF to \in {"start", "stop"}
                         THEN [me EXCEPT !.pc = "seq", !.kind = to,
                                  !.todo = sequence_of(to, me.snap, audio_mute_manager,
                                                       me.role, mute_result)]
                         ELSE [me EXCEPT !.pc = to]
                    ELSE IF /\ observe
                            /\ inflight[g].role = me.role
                            /\ inflight[g].pc \in {"load", "seq", "paste"}
                            /\ inflight[g].state # me.state
                         THEN [inflight[g] EXCEPT !.stale = TRUE]
                         ELSE inflight[g]]
    /\ UNCHANGED <<observers, environment, is_recording, muted, notified>>

\* The Toggle release loads is_recording and picks its sequence (lib.rs 176).
Load(h) ==
    /\ inflight[h].pc = "load"
    /\ LET me   == inflight[h]
           kind == IF is_recording THEN "stop" ELSE "start"
       IN  \E mute_result \in {"ok", "err"} :
                inflight' = [inflight EXCEPT ![h] =
                    [me EXCEPT !.pc = "seq", !.kind = kind,
                        !.todo = sequence_of(kind, me.snap, audio_mute_manager,
                                             me.role, mute_result)]]
    /\ UNCHANGED <<observers, environment, flags, muted, notified>>

\* The next call of the sequence (lib.rs 75-91, 104-117).
Call(h, observe) ==
    /\ inflight[h].pc = "seq"
    /\ LET me   == inflight[h]
           c    == Head(me.todo)
           rest == remaining_calls(me.todo, me.kind, is_recording)
       IN  /\ is_recording' = recording_after(is_recording, <<c>>)
           /\ muted' = muted_after(muted, <<c>>)
           /\ notified' = notified_after(notified, <<c>>)
           /\ inflight' = [inflight EXCEPT ![h] =
                    IF rest = <<>>
                    THEN IF c.op = "emit" THEN NoHandler ELSE Aborted
                    ELSE [me EXCEPT !.todo = rest,
                             !.before = IF c.op = "store_is_recording"
                                        THEN IF observe THEN ToString(is_recording)
                                             ELSE "written"
                                        ELSE @]]
    /\ UNCHANGED <<observers, environment, toggle_key_held, ptt_key_held,
                   paste_key_held>>

\* The paste action of a completed PasteLast gesture (lib.rs 235-247).
Paste(h) ==
    /\ inflight[h].pc = "paste"
    /\ inflight' = [inflight EXCEPT ![h] = NoHandler]
    /\ UNCHANGED <<observers, environment, flags, muted, notified>>

\* The settings UI writes auto_mute_audio while handlers run.
UpdateSetting ==
    /\ \E v \in {BoolVal(TRUE), BoolVal(FALSE)} :
            /\ v # store["auto_mute_audio"]
            /\ store' = [store EXCEPT !["auto_mute_audio"] = v]
    /\ UNCHANGED <<observers, registered, audio_mute_manager, history, flags,
                   muted, notified, inflight>>

DeliverEvent == \E h \in Contexts : Deliver(h, registered)
SwapStep     == \E h \in Contexts : Swap(h, TRUE)
LoadStep     == \E h \in Contexts : Load(h)
CallStep     == \E h \in Contexts : Call(h, TRUE)
PasteStep    == \E h \in Contexts : Paste(h)

InitConcurrent == InitFrom(Stores({Missing}, {Missing}), {TRUE}) /\ NormIdle

NextConcurrent ==
    DeliverEvent \/ SwapStep \/ LoadStep \/ CallStep \/ PasteStep \/ UpdateSetting

SpecConcurrent == InitConcurrent /\ [][NextConcurrent]_vars

(***************************************************************************)
(* The same steps under fair scheduling, for the events that run a start   *)
(* or stop sequence (those of the Toggle and the Hold shortcut): each      *)
(* context goes on with the handler it runs, the hook and the command      *)
(* threads being scheduled and every collaborator call returning.  New     *)
(* events need never arrive.                                               *)
(***************************************************************************)
RecordingShortcuts ==
    {sc \in registered :
        role_of(store, event_shortcut_str[sc]) \in {"Toggle", "Hold"}}

Run(h) == Swap(h, FALSE) \/ Load(h) \/ Call(h, FALSE)

DeliverRecordingEvent == \E h \in Contexts : Deliver(h, RecordingShortcuts)
FairSwap == \E h \in Contexts : Swap(h, FALSE)
FairLoad == \E h \in Contexts : Load(h)
FairCall == \E h \in Contexts : Call(h, FALSE)

NextFair == DeliverRecordingEvent \/ FairSwap \/ FairLoad \/ FairCall \/ UpdateSetting

SpecFair ==
    InitConcurrent /\ [][NextFair]_vars /\ \A h \in Contexts : WF_vars(Run(h))

(***************************************************************************)
(* The normaliser applied once and twice to every string made of at most   *)
(* MaxFrags fragments: the tokens it replaces, the spellings it produces,  *)
(* halves of the tokens, a separator and upper-case forms.                 *)
(***************************************************************************)
Fragments ==
    {"ctrl", "cmd", "meta", "win", "control", "super",
     "ct", "rl", "c", "md", "me", "ta", "wi", "n",
     "+", "CT", "Rl"}

RECURSIVE Concats(_)
Concats(n) ==
    IF n = 0 THEN {""}
    ELSE LET shorter == Concats(n - 1)
         IN  shorter \cup {s \o f : s \in shorter, f \in Fragments}

NormInputs == Concats(MaxFrags)

InitNorm ==
    /\ InitFrom({[k \in StoreKeys |-> Missing]}, {TRUE})
    /\ norm_in \in NormInputs
    /\ norm_out = <<>>

Normalize ==
    /\ norm_out = <<>>
    /\ norm_out' = <<normalize_shortcut_string(norm_in),
                     normalize_shortcut_string(normalize_shortcut_string(norm_in))>>
    /\ UNCHANGED <<store, registered, audio_mute_manager, history, toggle_key_held,
                   ptt_key_held, paste_key_held, is_recording, last, pre, effects,
                   run, norm_in, muted, notified, dispatched, previous,
                   inflight>>

NextNorm == Normalize

SpecNorm == InitNorm /\ [][NextNorm]_vars

(***************************************************************************)
(* The normaliser applied to two spellings of one shortcut: the same       *)
(* tokens joined by "+", each token spelled in either case and each        *)
(* modifier under any of its synonyms.                                     *)
(***************************************************************************)
Tokens == {"control", "super", "shift", "a", "k"}

Spellings(tok) ==
    IF tok = "control" THEN {"ctrl", "control", "Ctrl"}
    ELSE IF tok = "super" THEN {"cmd", "meta", "win", "super", "Cmd", "WIN"}
    ELSE IF tok = "shift" THEN {"shift", "Shift"}
    ELSE IF tok = "a" THEN {"a", "A"}
    ELSE {"k", "K"}

TokenPairs == UNION {Spellings(tok) \X Spellings(tok) : tok \in Tokens}

\* Pairs of spellings of one shortcut of at most n tokens.
RECURSIVE SpellingPairs(_)
SpellingPairs(n) ==
    IF n = 1 THEN TokenPairs
    ELSE LET shorter == SpellingPairs(n - 1)
         IN  shorter \cup {<<p[1] \o "+" \o q[1], p[2] \o "+" \o q[2]>> :
                               p \in shorter, q \in TokenPairs}

InitFold ==
    /\ InitFrom({[k \in StoreKeys |-> Missing]}, {TRUE})
    /\ norm_in \in SpellingPairs(MaxTokens)
    /\ norm_out = <<>>

NormalizeBoth ==
    /\ norm_out = <<>>
    /\ norm_out' = <<normalize_shortcut_string(norm_in[1]),
                     normalize_shortcut_string(norm_in[2])>>
    /\ UNCHANGED <<store, registered, audio_mute_manager, history, toggle_key_held,
                   ptt_key_held, paste_key_held, is_recording, last, pre, effects,
                   run, norm_in, muted, notified, dispatched, previous,
                   inflight>>

NextFold == NormalizeBoth

SpecFold == InitFold /\ [][NextFold]_vars

(***************************************************************************)
(* Vocabulary of the properties.                                           *)
(***************************************************************************)
Roles == {"Toggle", "Hold", "PasteLast"}

Handled(role, ev_state) == last.role = role /\ last.state = ev_state

Calls(op) == {i \in 1..Len(effects) : effects[i].op = op}
Starts == Count(effects, "emit", "recording-start")
Stops  == Count(effects, "emit", "recording-stop")

\* The last step handled an event that won the edge starting (stopping) a
\* recording.
StartSequence ==
    \/ Handled("Toggle", "Released") /\ pre.toggle_key_held /\ ~pre.is_recording
    \/ Handled("Hold", "Pressed") /\ ~pre.ptt_key_held
StopSequence ==
    \/ Handled("Toggle", "Released") /\ pre.toggle_key_held /\ pre.is_recording
    \/ Handled("Hold", "Released") /\ pre.ptt_key_held

\* No notification, cue, mute/unmute call or text injection among the calls.
NoSideEffect ==
    \A i \in 1..Len(effects) :
        effects[i].op \notin {"emit", "play_sound", "mute", "unmute", "type_text",
                              "store_is_recording"}

PressesThenRelease(evs) ==
    /\ Len(evs) >= 2
    /\ evs[Len(evs)] = "Released"
    /\ \A i \in 1..(Len(evs) - 1) : evs[i] = "Pressed"

(***************************************************************************)
(* C1 - Toggle gesture.  In a run of Toggle events begun with              *)
(* is_recording = FALSE and toggle_key_held = FALSE: the press alone emits *)
(* nothing and leaves is_recording FALSE; [press, release] has emitted     *)
(* exactly one recording-start and no recording-stop and is_recording is   *)
(* TRUE; the next press changes nothing; the next release has emitted      *)
(* exactly one recording-stop and no further recording-start, and          *)
(* is_recording is FALSE.  A Toggle press never makes a call nor changes   *)
(* is_recording.                                                           *)
(***************************************************************************)
C1_ToggleGesture ==
    /\ (Handled("Toggle", "Pressed") =>
            effects = <<>> /\ is_recording = pre.is_recording)
    /\ (run.role = "Toggle" /\ ~run.rec0 =>
        /\ run.events = <<"Pressed">> =>
                run.starts = 0 /\ run.stops = 0 /\ ~is_recording
        /\ run.events = <<"Pressed", "Released">> =>
                run.starts = 1 /\ run.stops = 0 /\ is_recording
        /\ run.events = <<"Pressed", "Released", "Pressed">> =>
                run.starts = 1 /\ run.stops = 0 /\ is_recording
        /\ run.events = <<"Pressed", "Released", "Pressed", "Released">> =>
                run.starts = 1 /\ run.stops = 1 /\ ~is_recording)

C1_Witness ==
    /\ run.role = "Toggle" /\ ~run.rec0
    /\ run.events = <<"Pressed", "Released", "Pressed", "Released">>
    /\ run.starts = 1 /\ run.stops = 1 /\ ~is_recording

(***************************************************************************)
(* C2 - Key-repeat immunity.  A gesture of n >= 1 presses followed by one  *)
(* release, all dispatched to the same role and begun with the role's      *)
(* held-flag FALSE, produces exactly one activation whatever n is: one     *)
(* start-or-stop for Toggle, one start and one stop for Hold, one paste    *)
(* action (and no notification) for PasteLast.  A press that finds the     *)
(* role's held-flag TRUE makes no call and changes no flag.                *)
(***************************************************************************)
C2_KeyRepeatImmunity ==
    /\ (last.role \in Roles /\ last.state = "Pressed" /\ held_flag(pre, last.role) =>
            effects = <<>> /\ Flags = pre)
    /\ (PressesThenRelease(run.events) =>
        /\ run.role = "Toggle" =>
                run.starts + run.stops = 1 /\ run.pastes = 0
                /\ (run.starts = 1 <=> ~run.rec0)
        /\ run.role = "Hold" =>
                run.starts = 1 /\ run.stops = 1 /\ run.pastes = 0
        /\ run.role = "PasteLast" =>
                run.pastes = 1 /\ run.starts = 0 /\ run.stops = 0)

C2_Witness ==
    /\ run.role = "Hold"
    /\ run.events = <<"Pressed", "Pressed", "Pressed", "Released">>
    /\ run.starts = 1 /\ run.stops = 1

(***************************************************************************)
(* C3 - Spurious release immunity.  A release dispatched to a role whose   *)
(* held-flag is FALSE makes no call at all (no notification, cue,          *)
(* mute/unmute, injection) and leaves the four flags as they were.         *)
(***************************************************************************)
C3_SpuriousRelease ==
    last.role \in Roles /\ last.state = "Released" /\ ~held_flag(pre, last.role) =>
        effects = <<>> /\ Flags = pre

C3_Witness ==
    /\ Handled("Hold", "Released") /\ ~pre.ptt_key_held
    /\ pre.is_recording /\ is_recording

(***************************************************************************)
(* C4 - Hold role, as claimed: ptt_key_held = TRUE implies                 *)
(* is_recording = TRUE in every state between events (after a Hold press   *)
(* only a Hold release sets is_recording back to FALSE).                   *)
(***************************************************************************)
C4_Original == ptt_key_held => is_recording

(***************************************************************************)
(* C4, amended - a Hold press handled while ptt_key_held was FALSE leaves  *)
(* is_recording TRUE, a Hold release handled while ptt_key_held was TRUE   *)
(* leaves it FALSE, and the only events that take is_recording from TRUE   *)
(* to FALSE are a Hold release that found ptt_key_held TRUE and a Toggle   *)
(* release that found toggle_key_held TRUE.                                *)
(***************************************************************************)
C4_HoldRole ==
    /\ (Handled("Hold", "Pressed") /\ ~pre.ptt_key_held => is_recording)
    /\ (Handled("Hold", "Released") /\ pre.ptt_key_held => ~is_recording)
    /\ (pre.is_recording /\ ~is_recording =>
            \/ Handled("Hold", "Released") /\ pre.ptt_key_held
            \/ Handled("Toggle", "Released") /\ pre.toggle_key_held)

\* A Toggle gesture completed while the Hold key is down stops the recording.
C4_Witness ==
    /\ Handled("Toggle", "Released") /\ pre.toggle_key_held
    /\ pre.ptt_key_held /\ ptt_key_held
    /\ pre.is_recording /\ ~is_recording

(***************************************************************************)
(* C5 - Unknown shortcut.  An event whose normalised identity equals none  *)
(* of the three roles' current keys leaves the four flags unchanged and    *)
(* makes no call but the warning that names it; the events of a shortcut   *)
(* registered at startup whose role has since been reconfigured are such   *)
(* events.                                                                 *)
(***************************************************************************)
C5_UnknownShortcut ==
    /\ last.role # "None"
    /\ last.shortcut_str \notin {toggle_shortcut_str(store), hold_shortcut_str(store),
                                 paste_last_shortcut_str(store)}
    => /\ last.role = "Unknown"
       /\ Flags = pre
       /\ NoSideEffect
       /\ effects = <<Eff("log_warn_unknown_shortcut", last.shortcut_str)>>

\* The release of the startup Toggle shortcut, dropped after toggle_hotkey
\* was changed while the key was down.
C5_Witness ==
    /\ last.role = "Unknown" /\ last.state = "Released"
    /\ last.shortcut_str = normalized[to_shortcut_string(default_toggle)]
    /\ pre.toggle_key_held /\ toggle_key_held

(***************************************************************************)
(* C6 - Side-effect ordering.  With sound cues and auto-mute both enabled  *)
(* (and the mute manager present), a start sequence calls play_sound       *)
(* before mute, and a stop sequence calls unmute before play_sound.        *)
(***************************************************************************)
C6_Ordering ==
    last.snap.sound_enabled /\ last.snap.auto_mute_audio /\ audio_mute_manager =>
        /\ StartSequence =>
            \E i \in Calls("play_sound"), j \in Calls("mute") :
                /\ i < j
                /\ Calls("play_sound") = {i} /\ Calls("mute") = {j}
                /\ effects[i].arg = "RecordingStart"
        /\ StopSequence =>
            \E i \in Calls("unmute"), j \in Calls("play_sound") :
                /\ i < j
                /\ Calls("unmute") = {i} /\ Calls("play_sound") = {j}
                /\ effects[j].arg = "RecordingStop"

C6_Witness ==
    /\ last.snap.sound_enabled /\ last.snap.auto_mute_audio /\ audio_mute_manager
    /\ StopSequence
    /\ Calls("unmute") # {} /\ Calls("play_sound") # {}

(***************************************************************************)
(* C7 - Mute-subsystem independence.  In every start (stop) sequence,      *)
(* whether the mute (unmute) call succeeds, fails or is not made,          *)
(* is_recording is TRUE (FALSE) afterwards, the cue is played exactly when *)
(* sound is enabled, and recording-start (recording-stop) is emitted       *)
(* exactly once, as the last call, and the other notification not at all.  *)
(***************************************************************************)
C7_MuteIndependence ==
    /\ StartSequence =>
        /\ is_recording
        /\ Starts = 1 /\ Stops = 0
        /\ effects[Len(effects)] = Eff("emit", "recording-start")
        /\ Count(effects, "play_sound", "RecordingStart")
                = (IF last.snap.sound_enabled THEN 1 ELSE 0)
    /\ StopSequence =>
        /\ ~is_recording
        /\ Stops = 1 /\ Starts = 0
        /\ effects[Len(effects)] = Eff("emit", "recording-stop")
        /\ Count(effects, "play_sound", "RecordingStop")
                = (IF last.snap.sound_enabled THEN 1 ELSE 0)

\* A start sequence whose mute call failed.
C7_Witness ==
    /\ StartSequence
    /\ Count(effects, "mute", "err") = 1
    /\ last.snap.sound_enabled
    /\ is_recording /\ Starts = 1

(***************************************************************************)
(* C8 - Paste-last action, as claimed: a completed PasteLast gesture makes *)
(* no injection call when the history is empty and exactly one, with the   *)
(* most recent entry's text, when it is not; it changes no flag but        *)
(* paste_key_held and emits no notification.                               *)
(***************************************************************************)
PasteGesture == Handled("PasteLast", "Released") /\ pre.paste_key_held

PasteFrame ==
    /\ is_recording = pre.is_recording
    /\ toggle_key_held = pre.toggle_key_held
    /\ ptt_key_held = pre.ptt_key_held
    /\ Starts = 0 /\ Stops = 0

C8_Original ==
    PasteGesture =>
        /\ history = <<>> => Calls("type_text") = {}
        /\ history # <<>> =>
                \E i \in Calls("type_text") :
                    Calls("type_text") = {i} /\ effects[i].arg = history[1]
        /\ PasteFrame

(***************************************************************************)
(* C8, amended - a completed PasteLast gesture makes no injection call     *)
(* when the history lookup fails or returns no entry, and exactly one      *)
(* injection call, with the most recent entry's text, when the lookup      *)
(* returns an entry; a failed injection is not retried.  In every case     *)
(* is_recording, toggle_key_held and ptt_key_held are unchanged and no     *)
(* notification is emitted.                                                *)
(***************************************************************************)
C8_PasteLast ==
    PasteGesture =>
        /\ Count(effects, "get_all", "err") = 1 \/ history = <<>> =>
                Calls("type_text") = {}
        /\ Count(effects, "get_all", "ok") = 1 /\ history # <<>> =>
                \E i \in Calls("type_text") :
                    Calls("type_text") = {i} /\ effects[i].arg = history[1]
        /\ PasteFrame
        /\ ~paste_key_held

\* Two entries in the history, the injection of the newer one failed.
C8_Witness ==
    /\ PasteGesture
    /\ Len(history) = 2
    /\ Calls("type_text") # {}
    /\ Calls("log_error") # {}

(***************************************************************************)
(* C9 - Configuration fallback.  For each role, the key an event is        *)
(* compared with is the normalised built-in default when the stored        *)
(* configuration is missing, cannot be deserialised or cannot be compiled, *)
(* and the normalised stored configuration otherwise; it depends on no     *)
(* other role's entry, and every event is dispatched accordingly: to the   *)
(* first role, in the order Toggle, Hold, PasteLast, whose key it equals.  *)
(***************************************************************************)
ClaimedKey(key, default) ==
    LET v == store[key]
    IN  IF v = Missing \/ v = Junk THEN normalized[to_shortcut_string(default)]
        ELSE IF ~to_shortcut(v.val).ok THEN normalized[to_shortcut_string(default)]
        ELSE normalized[to_shortcut_string(v.val)]

C9_ConfigFallback ==
    last.role # "None" =>
        LET s  == last.shortcut_str
            kt == ClaimedKey("toggle_hotkey", default_toggle)
            kh == ClaimedKey("hold_hotkey", default_hold)
            kp == ClaimedKey("paste_last_hotkey", default_paste_last)
        IN  /\ last.role = "Toggle" <=> s = kt
            /\ last.role = "Hold" <=> s # kt /\ s = kh
            /\ last.role = "PasteLast" <=> s # kt /\ s # kh /\ s = kp
            /\ last.role = "Unknown" <=> s \notin {kt, kh, kp}

\* toggle_hotkey cannot be compiled and hold_hotkey is of the wrong type, while
\* paste_last_hotkey is a valid custom one: each event reaches its role.
C9_Witness ==
    /\ store["toggle_hotkey"] = HotkeyVal(BadHotkey)
    /\ store["hold_hotkey"] = Junk
    /\ store["paste_last_hotkey"] = HotkeyVal(CustomHotkey)
    /\ Handled("Toggle", "Released") /\ pre.toggle_key_held
    /\ last.shortcut_str = normalized[to_shortcut_string(default_toggle)]
    /\ pre.paste_key_held

(***************************************************************************)
(* C10 - Normalisation is idempotent: normalising the normalised form of   *)
(* any input yields that normalised form again.                            *)
(***************************************************************************)
C10_Idempotent == norm_out # <<>> => norm_out[2] = norm_out[1]

\* An input whose pieces only become tokens side by side.
C10_Witness ==
    /\ norm_in = "CT" \o "Rl" \o "win"
    /\ norm_out = <<"controlsuper", "controlsuper">>

(***************************************************************************)
(* C11 - Normalisation folds synonyms and case: two spellings of one       *)
(* shortcut that differ only in letter case, in 'ctrl' or 'control' for    *)
(* the control modifier, or in 'cmd', 'meta', 'win' or 'super' for the     *)
(* super modifier, normalise to the same string.                           *)
(***************************************************************************)
C11_FoldsSynonyms ==
    norm_out # <<>> => norm_out[1] = norm_out[2]

C11_Witness ==
    /\ norm_in = <<"Cmd+K", "win+k">>
    /\ norm_out = <<"super+k", "super+k">>

(***************************************************************************)
(* C12 - Role precedence.  Every event is dispatched to one role at most:  *)
(* the first, in the order Toggle, Hold, PasteLast, whose current key its  *)
(* normalised identity equals, also when it equals the keys of several.    *)
(* The event then leaves the held-flags of the later roles as they were    *)
(* and runs none of their actions: an event taken as Toggle starts nothing *)
(* on press, stops nothing on a release that found toggle_key_held FALSE,  *)
(* and pastes nothing; an event taken as Hold pastes nothing; every start  *)
(* or stop sequence is run for the role the event was dispatched to.       *)
(***************************************************************************)
Matches(s) ==
    {r \in Roles : s = (IF r = "Toggle" THEN toggle_shortcut_str(store)
                        ELSE IF r = "Hold" THEN hold_shortcut_str(store)
                        ELSE paste_last_shortcut_str(store))}

PasteCalls == Calls("get_all") \cup Calls("type_text") \cup Calls("log_info")

SequenceSources ==
    {effects[i].arg : i \in Calls("log_info_starting") \cup Calls("log_info_stopping")}

C12_RolePrecedence ==
    last.role # "None" =>
        LET ms == Matches(last.shortcut_str)
        IN  /\ "Toggle" \in ms => last.role = "Toggle"
            /\ "Toggle" \notin ms /\ "Hold" \in ms => last.role = "Hold"
            /\ ms = {"PasteLast"} <=> last.role = "PasteLast"
            /\ ms = {} <=> last.role = "Unknown"
            /\ last.role = "Toggle" =>
                    /\ ptt_key_held = pre.ptt_key_held
                    /\ paste_key_held = pre.paste_key_held
                    /\ PasteCalls = {}
                    /\ SequenceSources \subseteq {"Toggle"}
                    /\ (last.state = "Pressed" \/ ~pre.toggle_key_held => effects = <<>>)
            /\ last.role = "Hold" =>
                    /\ toggle_key_held = pre.toggle_key_held
                    /\ paste_key_held = pre.paste_key_held
                    /\ PasteCalls = {}
                    /\ SequenceSources \subseteq {"Hold"}

\* All three roles share the Toggle default: its release, with the Hold key
\* held since before the collision, is Toggle's and stops the recording.
C12_Witness ==
    /\ Matches(last.shortcut_str) = Roles
    /\ Handled("Toggle", "Released")
    /\ pre.toggle_key_held /\ pre.ptt_key_held /\ ptt_key_held
    /\ pre.is_recording /\ ~is_recording
    /\ SequenceSources = {"Toggle"}

(***************************************************************************)
(* C13 - Per-role frame condition.  An event dispatched to a role changes  *)
(* no held-flag but that role's own, and an unknown event none at all.     *)
(* is_recording is written, and so changed, only by a Toggle release that  *)
(* found toggle_key_held TRUE, a Hold press that found ptt_key_held FALSE  *)
(* or a Hold release that found ptt_key_held TRUE: never by a Toggle       *)
(* press, a PasteLast event, a repeated press or an unknown event.         *)
(***************************************************************************)
WinsRecordingEdge ==
    \/ Handled("Toggle", "Released") /\ pre.toggle_key_held
    \/ Handled("Hold", "Pressed") /\ ~pre.ptt_key_held
    \/ Handled("Hold", "Released") /\ pre.ptt_key_held

C13_FrameCondition ==
    /\ last.role # "Toggle" => toggle_key_held = pre.toggle_key_held
    /\ last.role # "Hold" => ptt_key_held = pre.ptt_key_held
    /\ last.role # "PasteLast" => paste_key_held = pre.paste_key_held
    /\ is_recording # pre.is_recording => WinsRecordingEdge
    /\ Calls("store_is_recording") # {} => WinsRecordingEdge

\* A completed paste gesture during a recording, the other two keys down.
C13_Witness ==
    /\ PasteGesture
    /\ pre.is_recording /\ is_recording
    /\ pre.toggle_key_held /\ toggle_key_held
    /\ pre.ptt_key_held /\ ptt_key_held
    /\ ~paste_key_held

(***************************************************************************)
(* C14 - Live settings snapshot.  The role an event is dispatched to, and  *)
(* whether its start or stop sequence plays a cue and mutes or unmutes,    *)
(* are those the store's contents at the handling of the event give: the   *)
(* first role whose current key the event equals, a cue exactly when       *)
(* sound_enabled is stored true or not stored, a mute or unmute call       *)
(* exactly when auto_mute_audio is stored true and the manager exists.     *)
(* Nothing of the snapshot of the event before it is carried over.         *)
(***************************************************************************)
StoredBool(key, default) ==
    IF store[key] = BoolVal(TRUE) THEN TRUE
    ELSE IF store[key] = BoolVal(FALSE) THEN FALSE
    ELSE default

FirstMatch(s) ==
    LET ms == Matches(s)
    IN  IF "Toggle" \in ms THEN "Toggle"
        ELSE IF "Hold" \in ms THEN "Hold"
        ELSE IF "PasteLast" \in ms THEN "PasteLast"
        ELSE "Unknown"

C15_Recoverable ==
    /\ \A r \in Roles : held_flag(Flags, r) <=> dispatched[r] = "Pressed"
    /\ Handled("Hold", "Released") /\ pre.ptt_key_held => ~is_recording

\* The release of the Hold key is dropped as unknown, hold_hotkey having
\* been rewritten while the key was down: the last event dispatched to Hold
\* is the press, and ptt_key_held stays TRUE.
C15_Witness ==
    /\ last.role = "Unknown" /\ last.state = "Released"
    /\ last.shortcut_str = normalized[to_shortcut_string(default_hold)]
    /\ store["hold_hotkey"] = HotkeyVal(CustomHotkey)
    /\ dispatched["Hold"] = "Pressed" /\ ptt_key_held /\ is_recording

(***************************************************************************)
(* C19 - Unmute on stop, as claimed: when a stop sequence has completed,   *)
(* the mute manager being present and its call, if made, having succeeded, *)
(* the system audio is not muted by this program, whatever events and      *)
(* settings changes came before (auto_mute_audio switched off between the  *)
(* start and the stop included).                                           *)
(***************************************************************************)
C19_Original ==
    StopSequence /\ audio_mute_manager /\ Count(effects, "unmute", "err") = 0
        => ~muted

\* The recording was started with auto-mute on and the audio muted; the
\* setting was switched off, and the stop sequence made no unmute call.
C19_Witness ==
    /\ StopSequence /\ audio_mute_manager
    /\ store["auto_mute_audio"] = BoolVal(FALSE)
    /\ Calls("unmute") = {}
    /\ effects[Len(effects)] = Eff("emit", "recording-stop")
    /\ ~is_recording /\ muted

(***************************************************************************)
(* C20 - Notification alternation, as claimed: with events handled one at  *)
(* a time, recording-start is emitted only by an event that found          *)
(* is_recording FALSE and recording-stop only by one that found it TRUE,   *)
(* so that the notifications alternate, beginning with recording-start.    *)
(***************************************************************************)
C20_Original ==
    /\ Starts > 0 => ~pre.is_recording
    /\ Stops > 0 => pre.is_recording

\* A Hold press during a recording begun by a Toggle gesture emits a second
\* recording-start.
C20_Witness ==
    /\ Handled("Hold", "Pressed") /\ ~pre.ptt_key_held
    /\ pre.is_recording /\ Starts = 1
    /\ notified = "recording-start"

(***************************************************************************)
(* C16 - Run to completion.  Under fair scheduling of the two contexts,    *)
(* every start or stop sequence that has made its store to is_recording    *)
(* goes on to emit its notification and return, whatever events the other  *)
(* context handles, whatever sequence it runs meanwhile and however the    *)
(* settings change: no handler returns out of a sequence before its emit.  *)
(***************************************************************************)
Begun(h) == inflight[h].pc = "seq" /\ inflight[h].before # "none"

\* The handler has returned, its sequence's last call, the emit, made.
Completed(h) == inflight[h].pc = "idle"

C16_RunToCompletion == \A h \in Contexts : Begun(h) ~> Completed(h)

\* Both handlers have returned and recording-start was emitted last although
\* is_recording is FALSE: a start sequence, overtaken by a whole stop
\* sequence of the other context, still ran to its emit.
C16_Witness ==
    /\ \A h \in Contexts : inflight[h].pc = "idle"
    /\ notified = "recording-start"
    /\ ~is_recording

(***************************************************************************)
(* C17 - Exactly-once edges under concurrency.  Of two events of the same  *)
(* role and the same state handled at the same time, at most one finds the *)
(* held-flag edge and goes on to the role's action (the start, the stop,   *)
(* the Toggle decision, the paste), in every interleaving: both do only    *)
(* when an event of the opposite state swapped the flag between their      *)
(* swaps.                                                                  *)
(***************************************************************************)
WonEdge(h) == inflight[h].pc \in {"load", "seq", "paste"}

C17_ExactlyOnce ==
    \A h1, h2 \in Contexts :
        /\ h1 # h2
        /\ inflight[h1].role = inflight[h2].role
        /\ inflight[h1].state = inflight[h2].state
        /\ WonEdge(h1) /\ WonEdge(h2)
        => inflight[h1].stale \/ inflight[h2].stale

\* Two Hold presses in flight: the hook's has won the edge and runs the
\* start sequence, the command context's is about to swap a flag that is
\* TRUE.
C17_Witness ==
    /\ inflight["hook"].role = "Hold" /\ inflight["hook"].state = "Pressed"
    /\ WonEdge("hook") /\ ~inflight["hook"].stale
    /\ inflight["command"].role = "Hold" /\ inflight["command"].state = "Pressed"
    /\ inflight["command"].pc = "swap"
    /\ ptt_key_held

(***************************************************************************)
(* C18 - Toggle decision under concurrency, as claimed: a Toggle release   *)
(* handled while events of other roles are handled runs the start sequence *)
(* only if is_recording is FALSE immediately before its store to           *)
(* is_recording, and the stop sequence only if it is TRUE then.            *)
(***************************************************************************)
C18_Original ==
    \A h \in Contexts :
        /\ inflight[h].role = "Toggle" /\ inflight[h].pc = "seq"
        /\ inflight[h].before # "none"
        /\ ~inflight[h].stale
        => /\ inflight[h].kind = "start" => inflight[h].before = ToString(FALSE)
           /\ inflight[h].kind = "stop" => inflight[h].before = ToString(TRUE)

\* The Toggle release loaded is_recording = FALSE and chose to start; the
\* Hold press of the other context stored TRUE before the Toggle's store.
C18_Witness ==
    /\ inflight["hook"].role = "Toggle" /\ inflight["hook"].pc = "seq"
    /\ inflight["hook"].kind = "start" /\ ~inflight["hook"].stale
    /\ inflight["hook"].before = ToString(TRUE)
    /\ inflight["command"].role = "Hold" /\ inflight["command"].state = "Pressed"
    /\ inflight["command"].pc = "seq"

(***************************************************************************)
(* C21 - Flag/notification agreement, as claimed: whenever no context      *)
(* handles an event, in every interleaving of the handlers of the two      *)
(* contexts, is_recording is TRUE exactly when the notification emitted    *)
(* last is recording-start, and FALSE while none was emitted; so a start   *)
(* sequence paused in its cue delay does not emit recording-start after a  *)
(* later stop sequence has stored FALSE and emitted recording-stop.        *)
(***************************************************************************)
Quiescent == \A h \in Contexts : inflight[h].pc \in {"idle", "aborted"}

C21_Original == Quiescent => (is_recording <=> notified = "recording-start")

\* A quick Hold gesture seen from two contexts: the press stored TRUE and
\* waited in its cue delay, the release ran its whole stop sequence, and the
\* press then emitted recording-start.  Every key is up and nothing records,
\* yet recording-start is the notification emitted last.
C21_Witness ==
    /\ Quiescent
    /\ ~toggle_key_held /\ ~ptt_key_held /\ ~paste_key_held
    /\ ~is_recording /\ ~muted
    /\ notified = "recording-start"

=============================================================================
